---- MODULE Spec2Model ----
(***************************************************************************)
(* A model of srt-to-praat.py: the conversion of SRT subtitle blocks into  *)
(* per-speaker interval tiers (parse_srt, add_silent_intervals) and the    *)
(* text normalisation applied to every subtitle (process_text,             *)
(* replace_numbers).                                                       *)
(*                                                                         *)
(* Representation.                                                         *)
(*  - A Python string that the code scans with a regular expression is a   *)
(*    sequence of tokens, one token for every character: the characters    *)
(*    of the input and those of the text a substitution callback returns   *)
(*    alike, so every pass of the cascade scans what the pass before       *)
(*    wrote.  Render writes the tokens back as the str the code holds,     *)
(*    one-to-one: every named character is delimited, so two token         *)
(*    sequences render alike exactly when they stand for the same str.     *)
(*  - A character outside ASCII is a token named by its code point, and    *)
(*    these names are the only tokens longer than one character.  The      *)
(*    tables of decimal digits and of whitespace are those of Unicode 14,  *)
(*    the version of the str type of Python 3.11.                          *)
(*  - A time is a Python float, an IEEE-754 double, held exactly as a      *)
(*    sign, an integer part and the bits of its fraction; the division by  *)
(*    1000.0 and the addition of time_to_seconds round to 53 significant   *)
(*    bits, to nearest and ties to even, as the code's arithmetic does.    *)
(*  - A raised Python exception is an outcome of its own: the operator     *)
(*    returns ok = FALSE and the action moves to pc = "raised".            *)
(***************************************************************************)
EXTENDS Integers, Sequences, FiniteSets, TLC

(***************************************************************************)
(* Bounds of the model.                                                    *)
(***************************************************************************)
\* the largest number of blocks of an SRT input
MaxBlocks == 2
\* the largest number of intervals handed to add_silent_intervals directly
MaxIntervals == 3
\* the largest time, in seconds, of those intervals and of their duration
MaxTime == 3
\* the longest text enumerated over TextAlphabet for process_text
MaxLen == 5

(***************************************************************************)
(* Characters.                                                             *)
(***************************************************************************)
\* A character of ASCII is the one-character token that holds it.  A
\* character outside ASCII, or a control character with no escape in a
\* string of TLA+, is the token "U+" followed by its code point in four
\* hexadecimal digits or more: "U+0663" is ARABIC-INDIC DIGIT THREE.
AsciiDigits == {"0", "1", "2", "3", "4", "5", "6", "7", "8", "9"}

\* the decimal digits (category Nd) outside ASCII, which \d of a str pattern
\* matches and int() converts: NonAsciiDigits[v + 1] holds those of value v
NonAsciiDigits ==
  <<{"U+0660", "U+06F0", "U+07C0", "U+0966", "U+09E6", "U+0A66", "U+0AE6",
     "U+0B66", "U+0BE6", "U+0C66", "U+0CE6", "U+0D66", "U+0DE6", "U+0E50",
     "U+0ED0", "U+0F20", "U+1040", "U+1090", "U+17E0", "U+1810", "U+1946",
     "U+19D0", "U+1A80", "U+1A90", "U+1B50", "U+1BB0", "U+1C40", "U+1C50",
     "U+A620", "U+A8D0", "U+A900", "U+A9D0", "U+A9F0", "U+AA50", "U+ABF0",
     "U+FF10", "U+104A0", "U+10D30", "U+11066", "U+110F0", "U+11136",
     "U+111D0", "U+112F0", "U+11450", "U+114D0", "U+11650", "U+116C0",
     "U+11730", "U+118E0", "U+11950", "U+11C50", "U+11D50", "U+11DA0",
     "U+16A60", "U+16AC0", "U+16B50", "U+1D7CE", "U+1D7D8", "U+1D7E2",
     "U+1D7EC", "U+1D7F6", "U+1E140", "U+1E2F0", "U+1E950", "U+1FBF0"},
    {"U+0661", "U+06F1", "U+07C1", "U+0967", "U+09E7", "U+0A67", "U+0AE7",
     "U+0B67", "U+0BE7", "U+0C67", "U+0CE7", "U+0D67", "U+0DE7", "U+0E51",
     "U+0ED1", "U+0F21", "U+1041", "U+1091", "U+17E1", "U+1811", "U+1947",
     "U+19D1", "U+1A81", "U+1A91", "U+1B51", "U+1BB1", "U+1C41", "U+1C51",
     "U+A621", "U+A8D1", "U+A901", "U+A9D1", "U+A9F1", "U+AA51", "U+ABF1",
     "U+FF11", "U+104A1", "U+10D31", "U+11067", "U+110F1", "U+11137",
     "U+111D1", "U+112F1", "U+11451", "U+114D1", "U+11651", "U+116C1",
     "U+11731", "U+118E1", "U+11951", "U+11C51", "U+11D51", "U+11DA1",
     "U+16A61", "U+16AC1", "U+16B51", "U+1D7CF", "U+1D7D9", "U+1D7E3",
     "U+1D7ED", "U+1D7F7", "U+1E141", "U+1E2F1", "U+1E951", "U+1FBF1"},
    {"U+0662", "U+06F2", "U+07C2", "U+0968", "U+09E8", "U+0A68", "U+0AE8",
     "U+0B68", "U+0BE8", "U+0C68", "U+0CE8", "U+0D68", "U+0DE8", "U+0E52",
     "U+0ED2", "U+0F22", "U+1042", "U+1092", "U+17E2", "U+1812", "U+1948",
     "U+19D2", "U+1A82", "U+1A92", "U+1B52", "U+1BB2", "U+1C42", "U+1C52",
     "U+A622", "U+A8D2", "U+A902", "U+A9D2", "U+A9F2", "U+AA52", "U+ABF2",
     "U+FF12", "U+104A2", "U+10D32", "U+11068", "U+110F2", "U+11138",
     "U+111D2", "U+112F2", "U+11452", "U+114D2", "U+11652", "U+116C2",
     "U+11732", "U+118E2", "U+11952", "U+11C52", "U+11D52", "U+11DA2",
     "U+16A62", "U+16AC2", "U+16B52", "U+1D7D0", "U+1D7DA", "U+1D7E4",
     "U+1D7EE", "U+1D7F8", "U+1E142", "U+1E2F2", "U+1E952", "U+1FBF2"},
    {"U+0663", "U+06F3", "U+07C3", "U+0969", "U+09E9", "U+0A69", "U+0AE9",
     "U+0B69", "U+0BE9", "U+0C69", "U+0CE9", "U+0D69", "U+0DE9", "U+0E53",
     "U+0ED3", "U+0F23", "U+1043", "U+1093", "U+17E3", "U+1813", "U+1949",
     "U+19D3", "U+1A83", "U+1A93", "U+1B53", "U+1BB3", "U+1C43", "U+1C53",
     "U+A623", "U+A8D3", "U+A903", "U+A9D3", "U+A9F3", "U+AA53", "U+ABF3",
     "U+FF13", "U+104A3", "U+10D33", "U+11069", "U+110F3", "U+11139",
     "U+111D3", "U+112F3", "U+11453", "U+114D3", "U+11653", "U+116C3",
     "U+11733", "U+118E3", "U+11953", "U+11C53", "U+11D53", "U+11DA3",
     "U+16A63", "U+16AC3", "U+16B53", "U+1D7D1", "U+1D7DB", "U+1D7E5",
     "U+1D7EF", "U+1D7F9", "U+1E143", "U+1E2F3", "U+1E953", "U+1FBF3"},
    {"U+0664", "U+06F4", "U+07C4", "U+096A", "U+09EA", "U+0A6A", "U+0AEA",
     "U+0B6A", "U+0BEA", "U+0C6A", "U+0CEA", "U+0D6A", "U+0DEA", "U+0E54",
     "U+0ED4", "U+0F24", "U+1044", "U+1094", "U+17E4", "U+1814", "U+194A",
     "U+19D4", "U+1A84", "U+1A94", "U+1B54", "U+1BB4", "U+1C44", "U+1C54",
     "U+A624", "U+A8D4", "U+A904", "U+A9D4", "U+A9F4", "U+AA54", "U+ABF4",
     "U+FF14", "U+104A4", "U+10D34", "U+1106A", "U+110F4", "U+1113A",
     "U+111D4", "U+112F4", "U+11454", "U+114D4", "U+11654", "U+116C4",
     "U+11734", "U+118E4", "U+11954", "U+11C54", "U+11D54", "U+11DA4",
     "U+16A64", "U+16AC4", "U+16B54", "U+1D7D2", "U+1D7DC", "U+1D7E6",
     "U+1D7F0", "U+1D7FA", "U+1E144", "U+1E2F4", "U+1E954", "U+1FBF4"},
    {"U+0665", "U+06F5", "U+07C5", "U+096B", "U+09EB", "U+0A6B", "U+0AEB",
     "U+0B6B", "U+0BEB", "U+0C6B", "U+0CEB", "U+0D6B", "U+0DEB", "U+0E55",
     "U+0ED5", "U+0F25", "U+1045", "U+1095", "U+17E5", "U+1815", "U+194B",
     "U+19D5", "U+1A85", "U+1A95", "U+1B55", "U+1BB5", "U+1C45", "U+1C55",
     "U+A625", "U+A8D5", "U+A905", "U+A9D5", "U+A9F5", "U+AA55", "U+ABF5",
     "U+FF15", "U+104A5", "U+10D35", "U+1106B", "U+110F5", "U+1113B",
     "U+111D5", "U+112F5", "U+11455", "U+114D5", "U+11655", "U+116C5",
     "U+11735", "U+118E5", "U+11955", "U+11C55", "U+11D55", "U+11DA5",
     "U+16A65", "U+16AC5", "U+16B55", "U+1D7D3", "U+1D7DD", "U+1D7E7",
     "U+1D7F1", "U+1D7FB", "U+1E145", "U+1E2F5", "U+1E955", "U+1FBF5"},
    {"U+0666", "U+06F6", "U+07C6", "U+096C", "U+09EC", "U+0A6C", "U+0AEC",
     "U+0B6C", "U+0BEC", "U+0C6C", "U+0CEC", "U+0D6C", "U+0DEC", "U+0E56",
     "U+0ED6", "U+0F26", "U+1046", "U+1096", "U+17E6", "U+1816", "U+194C",
     "U+19D6", "U+1A86", "U+1A96", "U+1B56", "U+1BB6", "U+1C46", "U+1C56",
     "U+A626", "U+A8D6", "U+A906", "U+A9D6", "U+A9F6", "U+AA56", "U+ABF6",
     "U+FF16", "U+104A6", "U+10D36", "U+1106C", "U+110F6", "U+1113C",
     "U+111D6", "U+112F6", "U+11456", "U+114D6", "U+11656", "U+116C6",
     "U+11736", "U+118E6", "U+11956", "U+11C56", "U+11D56", "U+11DA6",
     "U+16A66", "U+16AC6", "U+16B56", "U+1D7D4", "U+1D7DE", "U+1D7E8",
     "U+1D7F2", "U+1D7FC", "U+1E146", "U+1E2F6", "U+1E956", "U+1FBF6"},
    {"U+0667", "U+06F7", "U+07C7", "U+096D", "U+09ED", "U+0A6D", "U+0AED",
     "U+0B6D", "U+0BED", "U+0C6D", "U+0CED", "U+0D6D", "U+0DED", "U+0E57",
     "U+0ED7", "U+0F27", "U+1047", "U+1097", "U+17E7", "U+1817", "U+194D",
     "U+19D7", "U+1A87", "U+1A97", "U+1B57", "U+1BB7", "U+1C47", "U+1C57",
     "U+A627", "U+A8D7", "U+A907", "U+A9D7", "U+A9F7", "U+AA57", "U+ABF7",
     "U+FF17", "U+104A7", "U+10D37", "U+1106D", "U+110F7", "U+1113D",
     "U+111D7", "U+112F7", "U+11457", "U+114D7", "U+11657", "U+116C7",
     "U+11737", "U+118E7", "U+11957", "U+11C57", "U+11D57", "U+11DA7",
     "U+16A67", "U+16AC7", "U+16B57", "U+1D7D5", "U+1D7DF", "U+1D7E9",
     "U+1D7F3", "U+1D7FD", "U+1E147", "U+1E2F7", "U+1E957", "U+1FBF7"},
    {"U+0668", "U+06F8", "U+07C8", "U+096E", "U+09EE", "U+0A6E", "U+0AEE",
     "U+0B6E", "U+0BEE", "U+0C6E", "U+0CEE", "U+0D6E", "U+0DEE", "U+0E58",
     "U+0ED8", "U+0F28", "U+1048", "U+1098", "U+17E8", "U+1818", "U+194E",
     "U+19D8", "U+1A88", "U+1A98", "U+1B58", "U+1BB8", "U+1C48", "U+1C58",
     "U+A628", "U+A8D8", "U+A908", "U+A9D8", "U+A9F8", "U+AA58", "U+ABF8",
     "U+FF18", "U+104A8", "U+10D38", "U+1106E", "U+110F8", "U+1113E",
     "U+111D8", "U+112F8", "U+11458", "U+114D8", "U+11658", "U+116C8",
     "U+11738", "U+118E8", "U+11958", "U+11C58", "U+11D58", "U+11DA8",
     "U+16A68", "U+16AC8", "U+16B58", "U+1D7D6", "U+1D7E0", "U+1D7EA",
     "U+1D7F4", "U+1D7FE", "U+1E148", "U+1E2F8", "U+1E958", "U+1FBF8"},
    {"U+0669", "U+06F9", "U+07C9", "U+096F", "U+09EF", "U+0A6F", "U+0AEF",
     "U+0B6F", "U+0BEF", "U+0C6F", "U+0CEF", "U+0D6F", "U+0DEF", "U+0E59",
     "U+0ED9", "U+0F29", "U+1049", "U+1099", "U+17E9", "U+1819", "U+194F",
     "U+19D9", "U+1A89", "U+1A99", "U+1B59", "U+1BB9", "U+1C49", "U+1C59",
     "U+A629", "U+A8D9", "U+A909", "U+A9D9", "U+A9F9", "U+AA59", "U+ABF9",
     "U+FF19", "U+104A9", "U+10D39", "U+1106F", "U+110F9", "U+1113F",
     "U+111D9", "U+112F9", "U+11459", "U+114D9", "U+11659", "U+116C9",
     "U+11739", "U+118E9", "U+11959", "U+11C59", "U+11D59", "U+11DA9",
     "U+16A69", "U+16AC9", "U+16B59", "U+1D7D7", "U+1D7E1", "U+1D7EB",
     "U+1D7F5", "U+1D7FF", "U+1E149", "U+1E2F9", "U+1E959", "U+1FBF9"}>>

Digits == AsciiDigits \cup UNION {NonAsciiDigits[v] : v \in 1..10}

Upper == {"A", "B", "C", "D", "E", "F", "G", "H", "I", "J", "K", "L", "M",
          "N", "O", "P", "Q", "R", "S", "T", "U", "V", "W", "X", "Y", "Z"}

\* the characters str.strip() removes: those str.isspace() holds of
Whitespace ==
  {"\t", "\n", "U+000B", "\f", "\r", "U+001C", "U+001D", "U+001E", "U+001F",
   " ", "U+0085", "U+00A0", "U+1680", "U+2000", "U+2001", "U+2002", "U+2003",
   "U+2004", "U+2005", "U+2006", "U+2007", "U+2008", "U+2009", "U+200A",
   "U+2028", "U+2029", "U+202F", "U+205F", "U+3000"}

\* the characters int() removes around a number: the whitespace outside
\* ASCII and the six of ASCII that C's isspace holds of, which leaves out
\* the separators U+001C to U+001F
IntWhitespace == Whitespace \ {"U+001C", "U+001D", "U+001E", "U+001F"}

IsDigit(c) == c \in AsciiDigits \/ \E v \in 1..10 : c \in NonAsciiDigits[v]

IsUpper(c) == c \in Upper

DigitVal(c) ==
  CASE c = "0" -> 0 [] c = "1" -> 1 [] c = "2" -> 2 [] c = "3" -> 3
    [] c = "4" -> 4 [] c = "5" -> 5 [] c = "6" -> 6 [] c = "7" -> 7
    [] c = "8" -> 8 [] c = "9" -> 9
    [] OTHER -> (CHOOSE v \in 1..10 : c \in NonAsciiDigits[v]) - 1

\* the element of a one-element set.  The({F(x) : x \in {e}}) is F(e) with
\* e evaluated once, however often F reads its argument
The(S) == CHOOSE x \in S : TRUE

\* whether the token c is a character written by its name: the only tokens
\* of more than one character
NamedChar(c) == Len(c) > 1

\* One character as it is written in a rendered str.  A named character is
\* written as a backslash, its name and a semicolon, the character
\* backslash is written twice, every other character is written as it is.
\* Read from the left, a backslash is followed either by a second backslash,
\* and the two stand for the character backslash, or by a name that ends at
\* the next semicolon, and the whole stands for the named character: the one
\* character U+10000 is written "\U+10000;", the two characters U+1000 and
\* "0" are written "\U+1000;0", the seven characters "U+10000" are written
\* "U+10000".
RenderChar(c) ==
  IF c = "\\" THEN "\\\\"
  ELSE IF NamedChar(c) THEN ("\\" \o c) \o ";"
  ELSE c

\* the written forms of the characters t[i..], one after the other: each
\* is delimited, so the characters of a str can be read back from what is
\* written
RECURSIVE RenderFrom(_, _)
RenderFrom(t, i) ==
  IF i > Len(t) THEN "" ELSE RenderChar(t[i]) \o RenderFrom(t, i + 1)

\* the str a token sequence stands for: two token sequences are written
\* alike exactly when they stand for the same str
Render(t) == RenderFrom(t, 1)

\* t[i..j] as a sequence (empty when j < i)
Slice(t, i, j) == IF j < i THEN <<>> ELSE SubSeq(t, i, j)

\* the index of the last digit of the digit run starting at i; i - 1 when
\* t[i] is no digit (the greedy \d+)
RECURSIVE DigitRunEnd(_, _)
DigitRunEnd(t, i) ==
  IF i <= Len(t) /\ IsDigit(t[i]) THEN DigitRunEnd(t, i + 1) ELSE i - 1

\* int() of the digit string t[i..j]
RECURSIVE ToInt(_, _, _)
ToInt(t, i, j) ==
  IF j < i THEN 0 ELSE 10 * ToInt(t, i, j - 1) + DigitVal(t[j])

\* whether the tokens of the non-empty pat occur in t from position i on
MatchAt(t, i, pat) ==
  /\ i + Len(pat) - 1 <= Len(t)
  /\ t[i] = pat[1]
  /\ \A k \in 2..Len(pat) : t[i + k - 1] = pat[k]

(***************************************************************************)
(* inflect.engine().number_to_words and .ordinal, as the library renders   *)
(* non-negative integers (andword "and", comma ",", group 0).  The str     *)
(* returned is the sequence of its characters.                             *)
(***************************************************************************)
UnitWord ==
  << <<"o", "n", "e">>, <<"t", "w", "o">>, <<"t", "h", "r", "e", "e">>,
     <<"f", "o", "u", "r">>, <<"f", "i", "v", "e">>, <<"s", "i", "x">>,
     <<"s", "e", "v", "e", "n">>, <<"e", "i", "g", "h", "t">>,
     <<"n", "i", "n", "e">>, <<"t", "e", "n">>,
     <<"e", "l", "e", "v", "e", "n">>, <<"t", "w", "e", "l", "v", "e">>,
     <<"t", "h", "i", "r", "t", "e", "e", "n">>,
     <<"f", "o", "u", "r", "t", "e", "e", "n">>,
     <<"f", "i", "f", "t", "e", "e", "n">>,
     <<"s", "i", "x", "t", "e", "e", "n">>,
     <<"s", "e", "v", "e", "n", "t", "e", "e", "n">>,
     <<"e", "i", "g", "h", "t", "e", "e", "n">>,
     <<"n", "i", "n", "e", "t", "e", "e", "n">> >>

TenWord ==
  << <<"t", "e", "n">>, <<"t", "w", "e", "n", "t", "y">>,
     <<"t", "h", "i", "r", "t", "y">>, <<"f", "o", "r", "t", "y">>,
     <<"f", "i", "f", "t", "y">>, <<"s", "i", "x", "t", "y">>,
     <<"s", "e", "v", "e", "n", "t", "y">>, <<"e", "i", "g", "h", "t", "y">>,
     <<"n", "i", "n", "e", "t", "y">> >>

OrdUnitWord ==
  << <<"f", "i", "r", "s", "t">>, <<"s", "e", "c", "o", "n", "d">>,
     <<"t", "h", "i", "r", "d">>, <<"f", "o", "u", "r", "t", "h">>,
     <<"f", "i", "f", "t", "h">>, <<"s", "i", "x", "t", "h">>,
     <<"s", "e", "v", "e", "n", "t", "h">>, <<"e", "i", "g", "h", "t", "h">>,
     <<"n", "i", "n", "t", "h">>, <<"t", "e", "n", "t", "h">>,
     <<"e", "l", "e", "v", "e", "n", "t", "h">>,
     <<"t", "w", "e", "l", "f", "t", "h">>,
     <<"t", "h", "i", "r", "t", "e", "e", "n", "t", "h">>,
     <<"f", "o", "u", "r", "t", "e", "e", "n", "t", "h">>,
     <<"f", "i", "f", "t", "e", "e", "n", "t", "h">>,
     <<"s", "i", "x", "t", "e", "e", "n", "t", "h">>,
     <<"s", "e", "v", "e", "n", "t", "e", "e", "n", "t", "h">>,
     <<"e", "i", "g", "h", "t", "e", "e", "n", "t", "h">>,
     <<"n", "i", "n", "e", "t", "e", "e", "n", "t", "h">> >>

\* TenWord with its final "y" cut off
TenStem ==
  << <<>>, <<"t", "w", "e", "n", "t">>, <<"t", "h", "i", "r", "t">>,
     <<"f", "o", "r", "t">>, <<"f", "i", "f", "t">>, <<"s", "i", "x", "t">>,
     <<"s", "e", "v", "e", "n", "t">>, <<"e", "i", "g", "h", "t">>,
     <<"n", "i", "n", "e", "t">> >>

MillWord ==
  << <<>>, <<" ", "t", "h", "o", "u", "s", "a", "n", "d">>,
     <<" ", "m", "i", "l", "l", "i", "o", "n">>,
     <<" ", "b", "i", "l", "l", "i", "o", "n">> >>

\* " and ", the andword between its blanks
AndWord == <<" ", "a", "n", "d", " ">>

\* tenfn: 1..99; ord renders the ordinal form of the last word
TenWords(r, ord) ==
  IF r < 20 THEN (IF ord THEN OrdUnitWord[r] ELSE UnitWord[r])
  ELSE IF r % 10 = 0
         THEN (IF ord THEN TenStem[r \div 10] \o <<"i", "e", "t", "h">>
               ELSE TenWord[r \div 10])
         ELSE TenWord[r \div 10] \o <<"-">>
                \o (IF ord THEN OrdUnitWord[r % 10] ELSE UnitWord[r % 10])

\* hundfn without the group name: 1..999
HundWords(g, ord) ==
  IF g >= 100
    THEN UnitWord[g \div 100] \o <<" ", "h", "u", "n", "d", "r", "e", "d">>
           \o (IF g % 100 # 0 THEN AndWord \o TenWords(g % 100, ord)
               ELSE IF ord THEN <<"t", "h">> ELSE <<>>)
    ELSE TenWords(g, ord)

\* the groups of three digits from index m (0 = units) upwards; last tells
\* that no non-zero group follows to the right
RECURSIVE GroupWords(_, _, _, _)
GroupWords(n, m, last, ord) ==
  IF n = 0 THEN <<>>
  ELSE LET g == n % 1000
           rest == n \div 1000
       IN IF g = 0 THEN GroupWords(rest, m + 1, last, ord)
          ELSE LET piece == HundWords(g, ord /\ last /\ m = 0)
                              \o MillWord[m + 1]
                              \o (IF ord /\ last /\ m > 0 THEN <<"t", "h">>
                                  ELSE <<>>)
                   \* ", word " at the end of the chunk becomes " and word"
                   sep == IF rest = 0 THEN <<>>
                          ELSE IF last /\ m = 0 /\ g < 100 THEN AndWord
                          ELSE <<",", " ">>
               IN GroupWords(rest, m + 1, FALSE, ord) \o sep \o piece

number_to_words(n) ==
  IF n = 0 THEN <<"z", "e", "r", "o">> ELSE GroupWords(n, 0, TRUE, FALSE)

\* number_to_words(ordinal(n)): "21" -> "21st" -> "twenty-first"
ordinal_words(n) ==
  IF n = 0 THEN <<"z", "e", "r", "o", "t", "h">>
  ELSE GroupWords(n, 0, TRUE, TRUE)

\* number_to_words(decade).replace("y", "ie") + "s" for decade = 10 * d
decade_words(d) ==
  IF d = 0 THEN <<"z", "e", "r", "o", "s">>
  ELSE IF d = 1 THEN <<"t", "e", "n", "s">>
  ELSE TenStem[d] \o <<"i", "e", "s">>

(***************************************************************************)
(* replace_numbers: the cascade of re.sub passes.  Each sub_* operator is  *)
(* one re.sub scan from position i: at a position where the pattern        *)
(* matches it emits the characters of the callback's str and continues     *)
(* after the match, elsewhere it copies the character and moves one        *)
(* position on.  The next pass scans the characters the pass before wrote. *)
(***************************************************************************)
PercentTo == <<"%", " ", "t", "o", " ">>

\* " percent"
PercentWord == <<" ", "p", "e", "r", "c", "e", "n", "t">>

\* Step 1 callback
replace_percentage_range(num1, num2) ==
  number_to_words(num1) \o <<" ", "t", "o", " ">> \o number_to_words(num2)
    \o PercentWord

\* Step 1: re.sub(r'(\d+)% to (\d+)%', replace_percentage_range, text)
RECURSIVE sub_percentage_range(_, _)
sub_percentage_range(t, i) ==
  IF i > Len(t) THEN <<>>
  ELSE LET e1 == DigitRunEnd(t, i)
           s2 == e1 + 1 + Len(PercentTo)
           e2 == DigitRunEnd(t, s2)
       IN IF /\ e1 >= i
             /\ MatchAt(t, e1 + 1, PercentTo)
             /\ e2 >= s2
             /\ MatchAt(t, e2 + 1, <<"%">>)
            THEN replace_percentage_range(ToInt(t, i, e1), ToInt(t, s2, e2))
                   \o sub_percentage_range(t, e2 + 2)
            ELSE <<t[i]>> \o sub_percentage_range(t, i + 1)

\* Step 2 callback
replace_percentages(num) == number_to_words(num) \o PercentWord

\* Step 2: re.sub(r'(\d+)%', replace_percentages, text)
RECURSIVE sub_percentages(_, _)
sub_percentages(t, i) ==
  IF i > Len(t) THEN <<>>
  ELSE LET e == DigitRunEnd(t, i)
       IN IF e >= i /\ MatchAt(t, e + 1, <<"%">>)
            THEN replace_percentages(ToInt(t, i, e)) \o sub_percentages(t, e + 2)
            ELSE <<t[i]>> \o sub_percentages(t, i + 1)

\* Step 3 callback: number_to_words(ordinal(num_only)); the suffix matched
\* is not read
replace_ordinal_numbers(num_only) == ordinal_words(num_only)

OrdinalSuffix(t, i) ==
  \/ MatchAt(t, i, <<"s", "t">>)
  \/ MatchAt(t, i, <<"n", "d">>)
  \/ MatchAt(t, i, <<"r", "d">>)
  \/ MatchAt(t, i, <<"t", "h">>)

\* Step 3: re.sub(r'(\d+)(st|nd|rd|th)', replace_ordinal_numbers, text)
RECURSIVE sub_ordinal_numbers(_, _)
sub_ordinal_numbers(t, i) ==
  IF i > Len(t) THEN <<>>
  ELSE LET e == DigitRunEnd(t, i)
       IN IF e >= i /\ OrdinalSuffix(t, e + 1)
            THEN replace_ordinal_numbers(ToInt(t, i, e))
                   \o sub_ordinal_numbers(t, e + 3)
            ELSE <<t[i]>> \o sub_ordinal_numbers(t, i + 1)

\* Step 4 callback: f"{currency} dollars" keeps the digits as they are
convert_currency(currency) ==
  currency \o <<" ", "d", "o", "l", "l", "a", "r", "s">>

\* Step 4: re.sub(r'\$(\d+)', convert_currency, text)
RECURSIVE sub_currency(_, _)
sub_currency(t, i) ==
  IF i > Len(t) THEN <<>>
  ELSE LET e == DigitRunEnd(t, i + 1)
       IN IF t[i] = "$" /\ e >= i + 1
            THEN convert_currency(Slice(t, i + 1, e)) \o sub_currency(t, e + 1)
            ELSE <<t[i]>> \o sub_currency(t, i + 1)

\* Step 5 callback
four_digit_number(four_digit) ==
  IF four_digit % 1000 = 0 THEN number_to_words(four_digit)
  ELSE LET first_part == four_digit \div 100
           second_part == four_digit % 100
       IN IF second_part # 0
            THEN number_to_words(first_part) \o <<" ">>
                   \o number_to_words(second_part)
            ELSE number_to_words(first_part)
                   \o <<" ", "h", "u", "n", "d", "r", "e", "d">>

\* Step 5: re.sub(r'\d{4}', four_digit_number, text)
RECURSIVE sub_four_digit(_, _)
sub_four_digit(t, i) ==
  IF i > Len(t) THEN <<>>
  ELSE IF i + 3 <= Len(t) /\ \A k \in i..(i + 3) : IsDigit(t[k])
         THEN four_digit_number(ToInt(t, i, i + 3)) \o sub_four_digit(t, i + 4)
         ELSE <<t[i]>> \o sub_four_digit(t, i + 1)

\* Step 6 callback on the match t[i..e], has_s telling whether the optional
\* "s" was matched: whether int(num_str) raises ValueError, which it does on
\* a match that ends in "s" and is no decade
number_match_raises(t, i, e, has_s) ==
  has_s /\ ~(e = i + 1 /\ t[e] = "0")

\* Step 6 callback: the text returned when nothing is raised
replace_number_match(t, i, e, has_s) ==
  IF has_s THEN decade_words(DigitVal(t[i]))
  ELSE number_to_words(ToInt(t, i, e))

\* whether some call of the Step 6 callback raises, from position i on
RECURSIVE sub_numbers_raises(_, _)
sub_numbers_raises(t, i) ==
  IF i > Len(t) THEN FALSE
  ELSE IF ~IsDigit(t[i]) THEN sub_numbers_raises(t, i + 1)
  ELSE IF MatchAt(t, DigitRunEnd(t, i) + 1, <<"s">>)
         THEN \/ number_match_raises(t, i, DigitRunEnd(t, i), TRUE)
              \/ sub_numbers_raises(t, DigitRunEnd(t, i) + 2)
         ELSE sub_numbers_raises(t, DigitRunEnd(t, i) + 1)

\* Step 6: re.sub(r'\d+s?', replace_number_match, text)
RECURSIVE sub_numbers(_, _)
sub_numbers(t, i) ==
  IF i > Len(t) THEN <<>>
  ELSE IF ~IsDigit(t[i]) THEN <<t[i]>> \o sub_numbers(t, i + 1)
  ELSE IF MatchAt(t, DigitRunEnd(t, i) + 1, <<"s">>)
         THEN replace_number_match(t, i, DigitRunEnd(t, i), TRUE)
                \o sub_numbers(t, DigitRunEnd(t, i) + 2)
         ELSE replace_number_match(t, i, DigitRunEnd(t, i), FALSE)
                \o sub_numbers(t, DigitRunEnd(t, i) + 1)

\* line 152 on the text Step 5 left
numbers_step(t5) ==
  IF sub_numbers_raises(t5, 1) THEN [ok |-> FALSE, text |-> <<>>]
  ELSE [ok |-> TRUE, text |-> sub_numbers(t5, 1)]

\* lines 139-152, 115-152, 108-152 and 101-152: the rest of the cascade on
\* the text of the step before
four_digit_step(t4) == The({numbers_step(t5) : t5 \in {sub_four_digit(t4, 1)}})

currency_step(t3) == The({four_digit_step(t4) : t4 \in {sub_currency(t3, 1)}})

ordinal_step(t2) == The({currency_step(t3) : t3 \in {sub_ordinal_numbers(t2, 1)}})

percentages_step(t1) == The({ordinal_step(t2) : t2 \in {sub_percentages(t1, 1)}})

\* replace_numbers(text, convert_numbers): ok = FALSE when it raises
replace_numbers(t, convert) ==
  IF ~convert THEN [ok |-> TRUE, text |-> t]
  ELSE The({percentages_step(t1) : t1 \in {sub_percentage_range(t, 1)}})

\* re.sub(r'(?<=[A-Z])(?=[A-Z])', ' ', text)
RECURSIVE separate_uppercase(_, _)
separate_uppercase(t, i) ==
  IF i > Len(t) THEN <<>>
  ELSE IF i < Len(t) /\ IsUpper(t[i]) /\ IsUpper(t[i + 1])
         THEN <<t[i], " ">> \o separate_uppercase(t, i + 1)
         ELSE <<t[i]>> \o separate_uppercase(t, i + 1)

\* re.search(r'\d|[A-Z]{2,}', original_text)
search_digit_or_caps(t) ==
  \E i \in 1..Len(t) :
    \/ IsDigit(t[i])
    \/ i < Len(t) /\ IsUpper(t[i]) /\ IsUpper(t[i + 1])

\* lines 162-169 on what replace_numbers returned
record_change(t, timestamp, changes, convert, out) ==
  [ok |-> TRUE,
   text |-> out,
   changes_list |->
     IF search_digit_or_caps(t)
       THEN Append(changes, <<Render(timestamp), Render(t), out>>)
       ELSE changes]

\* lines 162-164: the spaces between upper-case letters
separate_step(t, timestamp, changes, convert, r) ==
  IF ~r.ok THEN [ok |-> FALSE, text |-> "", changes_list |-> changes]
  ELSE The({record_change(t, timestamp, changes, convert, out) :
              out \in {Render(IF convert THEN separate_uppercase(r.text, 1)
                              ELSE r.text)}})

\* process_text(text, timestamp, changes_list, convert_numbers): the text
\* returned and the change list after the call; ok = FALSE when
\* replace_numbers raises, before anything is appended
process_text(t, timestamp, changes, convert) ==
  The({separate_step(t, timestamp, changes, convert, r) :
         r \in {replace_numbers(t, convert)}})

(***************************************************************************)
(* Python floats.  A float is a finite binary fraction: the record of its  *)
(* sign, its integer part and the bits after the binary point up to the    *)
(* last 1.  Zero is positive and every value has one record, so = on       *)
(* records is == on floats.  The operations round to 53 significant bits,  *)
(* to nearest, ties to even, as the IEEE 754 doubles of Python do.         *)
(***************************************************************************)
Float(neg, int, frac) == [neg |-> neg, int |-> int, frac |-> frac]

\* the int 0 of lines 199 and 200, which compares as 0.0
FZero == Float(FALSE, 0, <<>>)

\* float(n) of an int
FloatOfInt(n) == IF n < 0 THEN Float(TRUE, 0 - n, <<>>) ELSE Float(FALSE, n, <<>>)

\* the number of bits of n > 0; 0 for 0
BitLen(n) == Cardinality({k \in 0..30 : 2^k <= n})

\* bit i of 0.bits
BitAt(bits, i) == IF i <= Len(bits) THEN bits[i] ELSE 0

\* bits without the zeros at its end
TrimBits(bits) ==
  IF \A i \in 1..Len(bits) : bits[i] = 0 THEN <<>>
  ELSE SubSeq(bits, 1, CHOOSE i \in 1..Len(bits) :
                         bits[i] = 1 /\ \A j \in (i + 1)..Len(bits) : bits[j] = 0)

\* the number of zeros bits starts with
LeadingZeros(bits) ==
  Cardinality({i \in 1..Len(bits) : \A j \in 1..i : bits[j] = 0})

\* the 20 bits of c < 2^20
ChunkBits(c) == [i \in 1..20 |-> (c \div 2^(20 - i)) % 2]

\* the first 80 bits after the binary point of r / q for 0 <= r < q <= 1024,
\* 20 at a time, and whether something is left after them
DivideBits(r, q) ==
  The({The({The({[bits |-> ChunkBits((r * 2^20) \div q)
                             \o ChunkBits((r1 * 2^20) \div q)
                             \o ChunkBits((r2 * 2^20) \div q)
                             \o ChunkBits((r3 * 2^20) \div q),
                  sticky |-> (r3 * 2^20) % q # 0] :
                   r3 \in {(r2 * 2^20) % q}}) :
              r2 \in {(r1 * 2^20) % q}}) :
         r1 \in {(r * 2^20) % q}})

\* the number of zeros the bits of r / q start with, for 0 < r < q <= 1024
DivideZeros(r, q) == Cardinality({k \in 1..10 : r * 2^k < q})

\* int + 0.bits plus one unit of the last bit
AddUnit(int, bits) ==
  IF \A i \in 1..Len(bits) : bits[i] = 1
    THEN [int |-> int + 1, bits |-> [i \in 1..Len(bits) |-> 0]]
    ELSE The({[int |-> int,
               bits |-> [i \in 1..Len(bits) |->
                           IF i < p THEN bits[i] ELSE IF i = p THEN 1 ELSE 0]] :
                p \in {CHOOSE i \in 1..Len(bits) :
                         bits[i] = 0 /\ \A j \in (i + 1)..Len(bits) : bits[j] = 1}})

\* the magnitude int + 0.bits (+ something below the last bit when sticky)
\* rounded to keep bits after the point: to nearest, a tie to even
RoundAt(int, bits, sticky, keep) ==
  IF Len(bits) <= keep THEN [int |-> int, bits |-> bits]
  ELSE LET odd == IF keep = 0 THEN int % 2 = 1 ELSE bits[keep] = 1
           below == sticky \/ \E j \in (keep + 2)..Len(bits) : bits[j] = 1
       IN IF bits[keep + 1] = 1 /\ (below \/ odd)
            THEN AddUnit(int, SubSeq(bits, 1, keep))
            ELSE [int |-> int, bits |-> SubSeq(bits, 1, keep)]

\* the number of bits after the point that 53 significant bits leave to a
\* magnitude of this integer part and this many zeros after the point
KeptBits(int, zeros) == IF int > 0 THEN 53 - BitLen(int) ELSE zeros + 53

\* the float nearest to the magnitude int + 0.bits
RoundMagnitude(neg, int, bits) ==
  The({The({Float(neg /\ (m.int > 0 \/ frac # <<>>), m.int, frac) :
              frac \in {TrimBits(m.bits)}}) :
         m \in {RoundAt(int, bits, FALSE, KeptBits(int, LeadingZeros(bits)))}})

\* n / 1000.0 for an int n >= 0
DivideBy1000(n) ==
  IF n % 1000 = 0 THEN Float(FALSE, n \div 1000, <<>>)
  ELSE The({The({Float(FALSE, m.int, TrimBits(m.bits)) :
                   m \in {RoundAt(n \div 1000, d.bits, d.sticky,
                                  KeptBits(n \div 1000,
                                           DivideZeros(n % 1000, 1000)))}}) :
              d \in {DivideBits(n % 1000, 1000)}})

\* n / 1000.0 for an int n
int_div_1000(n) ==
  IF n >= 0 THEN DivideBy1000(n)
  ELSE The({Float(TRUE, x.int, x.frac) : x \in {DivideBy1000(0 - n)}})

\* 1 - 0.bits for bits ending in 1: every bit but the last is flipped
OneMinus(bits) ==
  [i \in 1..Len(bits) |-> IF i = Len(bits) THEN 1 ELSE 1 - bits[i]]

\* n + x for an int n and a float x
int_plus_float(n, x) ==
  IF n = 0 THEN x
  ELSE IF x = FZero THEN FloatOfInt(n)
  ELSE IF (n < 0) = x.neg
    THEN RoundMagnitude(x.neg, (IF n < 0 THEN 0 - n ELSE n) + x.int, x.frac)
  ELSE LET a == IF n < 0 THEN 0 - n ELSE n
       IN IF a > x.int
            THEN IF x.frac = <<>>
                   THEN RoundMagnitude(n < 0, a - x.int, <<>>)
                   ELSE RoundMagnitude(n < 0, a - x.int - 1, OneMinus(x.frac))
            ELSE RoundMagnitude(x.neg, x.int - a, x.frac)

\* whether 0.a < 0.b
BitsLess(a, b) ==
  \E i \in 1..Len(b) :
    /\ b[i] = 1
    /\ BitAt(a, i) = 0
    /\ \A j \in 1..(i - 1) : BitAt(a, j) = b[j]

MagnitudeLess(x, y) ==
  x.int < y.int \/ (x.int = y.int /\ BitsLess(x.frac, y.frac))

\* x < y, x <= y and x > y of floats
FloatLess(x, y) ==
  IF x.neg # y.neg THEN x.neg
  ELSE IF x.neg THEN MagnitudeLess(y, x)
  ELSE MagnitudeLess(x, y)

FloatLeq(x, y) == x = y \/ FloatLess(x, y)

FloatGreater(x, y) == FloatLess(y, x)

(***************************************************************************)
(* Reading one SRT block: str.split, str.strip, int, time_to_seconds and   *)
(* the speaker pattern.                                                    *)
(***************************************************************************)
\* the first position at or after i where sep occurs in t; 0 when none
RECURSIVE FindSep(_, _, _)
FindSep(t, sep, i) ==
  IF i + Len(sep) - 1 > Len(t) THEN 0
  ELSE IF MatchAt(t, i, sep) THEN i
  ELSE FindSep(t, sep, i + 1)

\* str.split(sep) of t from position i on
RECURSIVE SplitFrom(_, _, _)
SplitFrom(t, sep, i) ==
  LET p == FindSep(t, sep, i)
  IN IF p = 0 THEN <<Slice(t, i, Len(t))>>
     ELSE <<Slice(t, i, p - 1)>> \o SplitFrom(t, sep, p + Len(sep))

Split(t, sep) == SplitFrom(t, sep, 1)

\* t without its leading characters of the set chars
RECURSIVE StripLeft(_, _)
StripLeft(t, chars) ==
  IF t # <<>> /\ Head(t) \in chars THEN StripLeft(Tail(t), chars) ELSE t

\* t without its trailing characters of the set chars
RECURSIVE StripRight(_, _)
StripRight(t, chars) ==
  IF t # <<>> /\ t[Len(t)] \in chars
    THEN StripRight(SubSeq(t, 1, Len(t) - 1), chars) ELSE t

\* str.strip()
Strip(t) == StripRight(StripLeft(t, Whitespace), Whitespace)

\* the digits int() reads: its argument without the whitespace around
IntStrip(t) == StripRight(StripLeft(t, IntWhitespace), IntWhitespace)

\* whether u[i..] is digits with single underscores between them
RECURSIVE IsDigitString(_, _)
IsDigitString(u, i) ==
  /\ i <= Len(u)
  /\ IsDigit(u[i])
  /\ \/ i = Len(u)
     \/ IsDigitString(u, i + 1)
     \/ i + 1 < Len(u) /\ u[i + 1] = "_" /\ IsDigitString(u, i + 2)

\* the value of the digits of u[i..j], underscores left out
RECURSIVE DigitsToInt(_, _, _)
DigitsToInt(u, i, j) ==
  IF j < i THEN 0
  ELSE IF u[j] = "_" THEN DigitsToInt(u, i, j - 1)
  ELSE 10 * DigitsToInt(u, i, j - 1) + DigitVal(u[j])

\* int() of the stripped string u: one sign at most, then decimal digits
\* with single underscores between them
IntOfStripped(u) ==
  IF u = <<>> THEN [ok |-> FALSE, val |-> 0]
  ELSE IF Head(u) \in {"+", "-"}
    THEN IF IsDigitString(u, 2)
           THEN [ok |-> TRUE,
                 val |-> IF Head(u) = "-" THEN 0 - DigitsToInt(u, 2, Len(u))
                         ELSE DigitsToInt(u, 2, Len(u))]
           ELSE [ok |-> FALSE, val |-> 0]
  ELSE IF IsDigitString(u, 1)
         THEN [ok |-> TRUE, val |-> DigitsToInt(u, 1, Len(u))]
         ELSE [ok |-> FALSE, val |-> 0]

\* int(s) of a Python string: surrounding whitespace (IntWhitespace) and one
\* sign are accepted around the digits; ok = FALSE is ValueError
IntOf(t) == The({IntOfStripped(u) : u \in {IntStrip(t)}})

\* total_seconds of line 175 from the four int() results
total_seconds(hours, minutes, seconds, milliseconds) ==
  IF hours.ok /\ minutes.ok /\ seconds.ok /\ milliseconds.ok
    THEN [ok |-> TRUE,
          val |-> The({int_plus_float(hours.val * 3600 + minutes.val * 60
                                        + seconds.val, x) :
                         x \in {int_div_1000(milliseconds.val)}})]
    ELSE [ok |-> FALSE, val |-> FZero]

\* lines 174-175 on the parts of the two splits
seconds_of_parts(hms, sm) ==
  IF Len(sm) # 2 THEN [ok |-> FALSE, val |-> FZero]
  ELSE The({total_seconds(hours, minutes, seconds, milliseconds) :
              hours \in {IntOf(hms[1])}, minutes \in {IntOf(hms[2])},
              seconds \in {IntOf(sm[1])}, milliseconds \in {IntOf(sm[2])}})

\* lines 173-174 on the parts of time_str.split(":")
seconds_of_split(hms) ==
  IF Len(hms) # 3 THEN [ok |-> FALSE, val |-> FZero]
  ELSE The({seconds_of_parts(hms, sm) : sm \in {Split(hms[3], <<",">>)}})

\* time_to_seconds(time_str), a float; ok = FALSE is the ValueError
\* of an unpacking with the wrong number of parts or of int()
time_to_seconds(time_str) ==
  The({seconds_of_split(hms) : hms \in {Split(time_str, <<":">>)}})

Arrow == <<" ", "-", "-", ">", " ">>

\* the two results of time_to_seconds together
times_of(s, e) ==
  IF s.ok /\ e.ok THEN [ok |-> TRUE, start |-> s.val, end |-> e.val]
  ELSE [ok |-> FALSE, start |-> FZero, end |-> FZero]

\* lines 242-243 once line 241 gave the parts
times_of_parts(parts) ==
  IF Len(parts) # 2 THEN [ok |-> FALSE, start |-> FZero, end |-> FZero]
  ELSE The({times_of(s, e) : s \in {time_to_seconds(parts[1])},
                             e \in {time_to_seconds(parts[2])}})

\* start_time, end_time = time_range.split(' --> ') and the two
\* conversions; ok = FALSE when any of them raises ValueError
parse_time_range(time_range) ==
  The({times_of_parts(parts) : parts \in {Split(time_range, Arrow)}})

\* the index of the first "]" of t at or after i; 0 when there is none
RECURSIVE FirstClose(_, _)
FirstClose(t, i) ==
  IF i > Len(t) THEN 0
  ELSE IF t[i] = "]" THEN i
  ELSE FirstClose(t, i + 1)

\* the groups of the speaker pattern when the first "]" of t is at close
speaker_groups(t, close) ==
  IF /\ t # <<>>
     /\ Head(t) = "["
     /\ close >= 3
     /\ MatchAt(t, close + 1, <<":", " ">>)
    THEN [ok |-> TRUE,
          speaker |-> Render(SubSeq(t, 2, close - 1)),
          text |-> Slice(t, close + 3, Len(t))]
    ELSE [ok |-> FALSE, speaker |-> "", text |-> <<>>]

\* re.match(r"\[([^\]]+)\]: (.*)", speaker_text): [^\]]+ ends at the first
\* "]", and must hold one character at least
speaker_match(t) == The({speaker_groups(t, close) : close \in {FirstClose(t, 2)}})

(***************************************************************************)
(* Intervals and the per-speaker dictionary.  speaker_intervals is the     *)
(* defaultdict(list) in insertion order: a sequence of entries.            *)
(***************************************************************************)
Interval(start, end, text) == [start |-> start, end |-> end, text |-> text]

\* a dictionary that already holds the key "Speaker" with an empty list:
\* what C10 excludes
PresetSpeaker == <<[speaker |-> "Speaker", intervals |-> <<>>]>>

\* speaker_intervals = defaultdict(list)
EmptyIntervals == <<>>

HasSpeaker(si, speaker) == \E k \in 1..Len(si) : si[k].speaker = speaker

\* speaker_intervals[speaker].append(interval): the lookup creates the key
dict_append(si, speaker, interval) ==
  IF HasSpeaker(si, speaker)
    THEN [k \in 1..Len(si) |->
            IF si[k].speaker = speaker
              THEN [si[k] EXCEPT !.intervals = Append(@, interval)]
              ELSE si[k]]
    ELSE Append(si, [speaker |-> speaker, intervals |-> <<interval>>])

\* where x goes in the sorted sequence s: after every element whose start
\* is not larger (list.sort is stable)
RECURSIVE InsertByStart(_, _)
InsertByStart(s, x) ==
  IF s = <<>> THEN <<x>>
  ELSE IF FloatLeq(Head(s).start, x.start)
    THEN <<Head(s)>> \o InsertByStart(Tail(s), x)
  ELSE <<x>> \o s

\* the list left in input order: what the ordering of C2 excludes
keep_input_order(s) == s

\* intervals.sort(key=lambda x: x.start)
RECURSIVE sort_by_start(_)
sort_by_start(s) ==
  IF s = <<>> THEN <<>>
  ELSE The({InsertByStart(front, s[Len(s)]) :
              front \in {sort_by_start(SubSeq(s, 1, Len(s) - 1))}})

\* the intervals from i on with no silence between them: what the gap
\* silence of C7 excludes
copy_without_gaps(intervals, i) == SubSeq(intervals, i, Len(intervals))

\* the loop over range(len(intervals)) from i on: each interval, and a
\* silent one after it when the next starts later than it ends
RECURSIVE fill_gaps(_, _)
fill_gaps(intervals, i) ==
  IF i > Len(intervals) THEN <<>>
  ELSE <<intervals[i]>>
         \o (IF i < Len(intervals)
                  /\ FloatGreater(intervals[i + 1].start, intervals[i].end)
               THEN <<Interval(intervals[i].end, intervals[i + 1].start, "")>>
               ELSE <<>>)
         \o fill_gaps(intervals, i + 1)

\* lines 197-217 on the sorted list
silent_tier_sorted(intervals, media) ==
  (IF FloatGreater(intervals[1].start, FZero)
     THEN <<Interval(FZero, intervals[1].start, "")>> ELSE <<>>)
    \o fill_gaps(intervals, 1)
    \o (IF FloatLess(intervals[Len(intervals)].end, media)
          THEN <<Interval(intervals[Len(intervals)].end, media, "")>> ELSE <<>>)

\* the first speaker with an empty list, at whose intervals[0] the loop
\* stops; 0 when there is none
first_empty(si) ==
  IF \E k \in 1..Len(si) : si[k].intervals = <<>>
    THEN CHOOSE k \in 1..Len(si) :
           /\ si[k].intervals = <<>>
           /\ \A j \in 1..(k - 1) : si[j].intervals # <<>>
    ELSE 0

\* the lists of the argument once line 195 sorted, in place, those of the
\* speakers 1..upto
sort_lists(si, upto) ==
  [k \in 1..Len(si) |->
     IF k <= upto THEN [si[k] EXCEPT !.intervals = sort_by_start(@)] ELSE si[k]]

\* updated_intervals once the loop over the speakers is through
updated_intervals(sorted, media) ==
  [k \in 1..Len(sorted) |->
     [speaker |-> sorted[k].speaker,
      intervals |-> silent_tier_sorted(sorted[k].intervals, media)]]

\* add_silent_intervals(speaker_intervals, media_duration): what it returns
\* (tiers) and the lists of its argument after the call (lists); ok = FALSE
\* is the IndexError of intervals[0] on an empty list
add_silent_intervals(si, media) ==
  IF first_empty(si) > 0
    THEN [ok |-> FALSE, tiers |-> <<>>, lists |-> sort_lists(si, first_empty(si))]
    ELSE The({[ok |-> TRUE, tiers |-> updated_intervals(sorted, media),
               lists |-> sorted] :
                sorted \in {sort_lists(si, Len(si))}})

\* end_seconds > media_duration
exceeds_duration(end_seconds, media) == FloatGreater(end_seconds, media)

\* float(audio_info['duration']) of a decimal string, given in thousandths:
\* the float nearest to it
float_of_decimal(thousandths) == int_div_1000(thousandths)

\* get_audio_duration(audio_file) on what mediainfo returned; ok = FALSE is
\* the RuntimeError of line 187
get_audio_duration(info) ==
  IF info.has_duration
    THEN [ok |-> TRUE, val |-> float_of_decimal(info.duration)]
    ELSE [ok |-> FALSE, val |-> FZero]

(***************************************************************************)
(* The inputs.                                                             *)
(***************************************************************************)
DigitChar(k) == <<"0", "1", "2", "3", "4", "5", "6", "7", "8", "9">>[k + 1]

\* "00:00:0k,000"
TimeStr(k) ==
  <<"0", "0", ":", "0", "0", ":", "0", DigitChar(k), ",", "0", "0", "0">>

TimeRange(s, e) == TimeStr(s) \o Arrow \o TimeStr(e)

\* "00:00:0_1,000 --> 00:00:0<U+0662>,000": from 1 s to 2 s, written with
\* an underscore and with ARABIC-INDIC DIGIT TWO
OddTimeRange ==
  <<"0", "0", ":", "0", "0", ":", "0", "_", "1", ",", "0", "0", "0">>
    \o Arrow
    \o <<"0", "0", ":", "0", "0", ":", "0", "U+0662", ",", "0", "0", "0">>

\* "00:00:00,500 --> 00:00:01,128"
FractionTimeRange ==
  <<"0", "0", ":", "0", "0", ":", "0", "0", ",", "5", "0", "0">>
    \o Arrow
    \o <<"0", "0", ":", "0", "0", ":", "0", "1", ",", "1", "2", "8">>

IndexLine == <<"1">>

\* "[A]: hi"
TextA == <<"[", "A", "]", ":", " ", "h", "i">>

\* "\f[<U+1D7C>E]: CD ": the form feed and the trailing blank are stripped;
\* the speaker is the two characters U+1D7C and "E"
TextB == <<"\f", "[", "U+1D7C", "E", "]", ":", " ", "C", "D", " ">>

\* "[<U+1D7CE>]: hi": the speaker is the one character U+1D7CE,
\* MATHEMATICAL BOLD DIGIT ZERO
TextC == <<"[", "U+1D7CE", "]", ":", " ", "h", "i">>

\* "5s": no speaker tag, a digit
TextPlain == <<"5", "s">>

\* a fourth line of a block, never read
ExtraLine == <<"m", "o", "r", "e">>

\* "00:00:01,000 --> 00:00:02,000<U+001F>": str.strip() would remove the
\* unit separator, int() does not
SeparatorTimeRange == TimeRange(1, 2) \o <<"U+001F">>

\* "00:01": no ' --> '
NoArrow == <<"0", "0", ":", "0", "1">>

\* "00:01 --> 00:02": times of two fields each
ShortTimes ==
  <<"0", "0", ":", "0", "1">> \o Arrow \o <<"0", "0", ":", "0", "2">>

\* the time ranges of the tagged blocks, in seconds: abutting ones, ones
\* with a gap, an empty one and a reversed one
SpokenRanges == {<<1, 2>>, <<2, 3>>, <<3, 4>>, <<1, 1>>, <<2, 1>>}

BlockPool ==
  {<<IndexLine, TimeRange(r[1], r[2]), TextA>> : r \in SpokenRanges}
    \cup {<<IndexLine, OddTimeRange, TextB, ExtraLine>>,
          <<IndexLine, FractionTimeRange, TextC>>,
          <<IndexLine, SeparatorTimeRange, TextA>>,
          <<IndexLine, TimeRange(0, 1), TextPlain>>,
          <<IndexLine, TimeRange(0, 1)>>,
          <<IndexLine, NoArrow, TextPlain>>,
          <<IndexLine, ShortTimes, TextA>>}

\* audio_info['duration'] as mediainfo gives it, in thousandths of a second
Durations == {1128, 2000, 5000}

\* what mediainfo(audio_file) returns: a duration, or none
AudioInfos ==
  {[has_duration |-> TRUE, duration |-> d] : d \in Durations}
    \cup {[has_duration |-> FALSE, duration |-> 0]}

\* the lists add_silent_intervals is applied to directly: intervals of one
\* speaker with start <= end
TimePoints == {FloatOfInt(k) : k \in 0..MaxTime}

SpeechIntervals ==
  {i \in [start : TimePoints, end : TimePoints, text : {"hi"}] :
     FloatLeq(i.start, i.end)}

IntervalLists == UNION {[1..n -> SpeechIntervals] : n \in 1..MaxIntervals}

TextAlphabet == {"0", "1", "2", "$", "s", "A"}

SampleTexts ==
  {<<"1", "0", "%", " ", "t", "o", " ", "3", "0", "%">>,
   <<"4", "5", "%">>,
   <<"2", "1", "s", "t">>,
   <<"7", "0", "s">>,
   <<"U+0663">>,
   <<"U+0667", "0", "s">>,
   <<"S", "R", "T">>,
   <<"h", "i">>}

TextInputs == SampleTexts \cup UNION {[1..n -> TextAlphabet] : n \in 0..MaxLen}

(***************************************************************************)
(* State.                                                                  *)
(***************************************************************************)
VARIABLES
  blocks,            \* re.split(r'\n\s*\n', srt_data.strip()), each block split in lines
  audio_info,        \* what mediainfo(audio_file) returns
  media_duration,    \* get_audio_duration(audio_file); 0.0 until line 232 binds it
  diarize,           \* the -d flag
  convert_numbers,   \* the -c flag
  pc,                \* "start", "loop", "call", "done" (returned) or "raised"
  exc,               \* the exception raised: "None", "ValueError",
                     \* "IndexError", "RuntimeError"
  idx,               \* the block the for loop of parse_srt is at
  speaker_intervals, \* the dictionary the loop fills, whose lists line 195
                     \* sorts in place
  changes_list,      \* the change records
  tiers,             \* what add_silent_intervals returns, to which line 271
                     \* rebinds the name speaker_intervals
  text,              \* the argument of a direct call of process_text
  processed          \* what that call returned

vars == <<blocks, audio_info, media_duration, diarize, convert_numbers, pc,
          exc, idx, speaker_intervals, changes_list, tiers, text, processed>>

\* parse_srt up to line 230
Init ==
  /\ blocks \in UNION {[1..n -> BlockPool] : n \in 0..MaxBlocks}
  /\ audio_info \in AudioInfos
  /\ media_duration = FZero
  /\ diarize \in BOOLEAN
  /\ convert_numbers \in BOOLEAN
  /\ pc = "start"
  /\ exc = "None"
  /\ idx = 1
  /\ speaker_intervals = EmptyIntervals
  /\ changes_list = <<>>
  /\ tiers = <<>>
  /\ text = <<>>
  /\ processed = ""

\* line 232 when get_audio_duration returns
GetAudioDuration ==
  /\ pc = "start"
  /\ \E duration \in {get_audio_duration(audio_info)} :
       /\ duration.ok
       /\ media_duration' = duration.val
  /\ pc' = "loop"
  /\ UNCHANGED <<blocks, audio_info, diarize, convert_numbers, exc, idx,
                 speaker_intervals, changes_list, tiers, text, processed>>

\* line 232 when get_audio_duration raises RuntimeError
RaiseInAudioDuration ==
  /\ pc = "start"
  /\ ~get_audio_duration(audio_info).ok
  /\ pc' = "raised"
  /\ exc' = "RuntimeError"
  /\ UNCHANGED <<blocks, audio_info, media_duration, diarize, convert_numbers,
                 idx, speaker_intervals, changes_list, tiers, text, processed>>

InLoop == pc = "loop" /\ idx <= Len(blocks)

lines == blocks[idx]

time_range == lines[2]

speaker_text == Strip(lines[3])

\* lines 240-243 raise nothing and line 246 lets the block pass
Within(times) ==
  times.ok /\ ~exceeds_duration(times.end, media_duration)

Continue ==
  /\ idx' = idx + 1
  /\ UNCHANGED <<blocks, audio_info, media_duration, diarize, convert_numbers,
                 pc, exc, tiers, text, processed>>

Raise(e) ==
  /\ pc' = "raised"
  /\ exc' = e
  /\ UNCHANGED <<blocks, audio_info, media_duration, diarize, convert_numbers,
                 idx, speaker_intervals, changes_list, tiers, text, processed>>

\* lines 236-237
SkipShortBlock ==
  /\ InLoop
  /\ Len(lines) < 3
  /\ Continue
  /\ UNCHANGED <<speaker_intervals, changes_list>>

\* lines 241-243: the unpacking or a conversion raises ValueError, which
\* nothing catches
RaiseOnTimeRange ==
  /\ InLoop
  /\ Len(lines) >= 3
  /\ ~parse_time_range(time_range).ok
  /\ Raise("ValueError")

\* lines 246-247
DropBeyondDuration ==
  /\ InLoop
  /\ Len(lines) >= 3
  /\ \E times \in {parse_time_range(time_range)} :
       times.ok /\ exceeds_duration(times.end, media_duration)
  /\ Continue
  /\ UNCHANGED <<speaker_intervals, changes_list>>

\* lines 262-263
SkipUnmatchedSpeaker ==
  /\ InLoop
  /\ Len(lines) >= 3
  /\ diarize
  /\ Within(parse_time_range(time_range))
  /\ ~speaker_match(speaker_text).ok
  /\ Continue
  /\ UNCHANGED <<speaker_intervals, changes_list>>

\* lines 255-261
AppendDiarized ==
  /\ InLoop
  /\ Len(lines) >= 3
  /\ diarize
  /\ \E times \in {parse_time_range(time_range)},
        m \in {speaker_match(speaker_text)} :
       /\ Within(times)
       /\ m.ok
       /\ \E r \in {process_text(m.text, time_range, changes_list,
                                 convert_numbers)} :
            /\ r.ok
            /\ speaker_intervals' =
                 dict_append(speaker_intervals, m.speaker,
                             Interval(times.start, times.end, r.text))
            /\ changes_list' = r.changes_list
  /\ Continue

\* lines 264-268
AppendSingleSpeaker ==
  /\ InLoop
  /\ Len(lines) >= 3
  /\ ~diarize
  /\ \E times \in {parse_time_range(time_range)} :
       /\ Within(times)
       /\ \E r \in {process_text(speaker_text, time_range, changes_list,
                                 convert_numbers)} :
            /\ r.ok
            /\ speaker_intervals' =
                 dict_append(speaker_intervals, "Speaker",
                             Interval(times.start, times.end, r.text))
            /\ changes_list' = r.changes_list
  /\ Continue

\* lines 259 and 267: process_text raises the ValueError of line 150
RaiseInProcessText ==
  /\ InLoop
  /\ Len(lines) >= 3
  /\ Within(parse_time_range(time_range))
  /\ \/ /\ diarize
        /\ \E m \in {speaker_match(speaker_text)} :
             /\ m.ok
             /\ ~process_text(m.text, time_range, changes_list, convert_numbers).ok
     \/ /\ ~diarize
        /\ ~process_text(speaker_text, time_range, changes_list, convert_numbers).ok
  /\ Raise("ValueError")

\* lines 271-273
AddSilentIntervals ==
  /\ pc = "loop"
  /\ idx > Len(blocks)
  /\ \E r \in {add_silent_intervals(speaker_intervals, media_duration)} :
       /\ tiers' = r.tiers
       /\ speaker_intervals' = r.lists
       /\ pc' = IF r.ok THEN "done" ELSE "raised"
       /\ exc' = IF r.ok THEN "None" ELSE "IndexError"
  /\ UNCHANGED <<blocks, audio_info, media_duration, diarize, convert_numbers,
                 idx, changes_list, text, processed>>

Next ==
  \/ GetAudioDuration
  \/ RaiseInAudioDuration
  \/ SkipShortBlock
  \/ RaiseOnTimeRange
  \/ DropBeyondDuration
  \/ SkipUnmatchedSpeaker
  \/ AppendDiarized
  \/ AppendSingleSpeaker
  \/ RaiseInProcessText
  \/ AddSilentIntervals

\* parse_srt on an SRT input
Spec == Init /\ [][Next]_vars

(***************************************************************************)
(* add_silent_intervals called on the lists of one speaker: the state of   *)
(* parse_srt at line 271 after a loop that appended them.                  *)
(***************************************************************************)
InitSilence ==
  /\ speaker_intervals \in
       {<<[speaker |-> "Speaker", intervals |-> l]>> : l \in IntervalLists}
  /\ media_duration \in TimePoints
  /\ audio_info = [has_duration |-> FALSE, duration |-> 0]
  /\ blocks = <<>>
  /\ diarize = FALSE
  /\ convert_numbers = FALSE
  /\ pc = "loop"
  /\ exc = "None"
  /\ idx = 1
  /\ changes_list = <<>>
  /\ tiers = <<>>
  /\ text = <<>>
  /\ processed = ""

NextSilence == AddSilentIntervals

SpecSilence == InitSilence /\ [][NextSilence]_vars

(***************************************************************************)
(* process_text called on its own.                                         *)
(***************************************************************************)
\* the timestamp argument of the direct calls
CallTimestamp == TimeRange(0, 1)

InitText ==
  /\ text \in TextInputs
  /\ convert_numbers \in BOOLEAN
  /\ pc = "call"
  /\ exc = "None"
  /\ changes_list = <<>>
  /\ processed = ""
  /\ blocks = <<>>
  /\ audio_info = [has_duration |-> FALSE, duration |-> 0]
  /\ media_duration = FZero
  /\ diarize = FALSE
  /\ idx = 1
  /\ speaker_intervals = EmptyIntervals
  /\ tiers = <<>>

\* lines 156-169
ProcessTextReturns ==
  /\ pc = "call"
  /\ \E r \in {process_text(text, CallTimestamp, changes_list, convert_numbers)} :
       /\ r.ok
       /\ processed' = r.text
       /\ changes_list' = r.changes_list
  /\ pc' = "done"
  /\ UNCHANGED <<blocks, audio_info, media_duration, diarize, convert_numbers,
                 exc, idx, speaker_intervals, tiers, text>>

\* line 160: replace_numbers raises the ValueError of line 150
ProcessTextRaises ==
  /\ pc = "call"
  /\ ~process_text(text, CallTimestamp, changes_list, convert_numbers).ok
  /\ pc' = "raised"
  /\ exc' = "ValueError"
  /\ UNCHANGED <<blocks, audio_info, media_duration, diarize, convert_numbers,
                 idx, speaker_intervals, changes_list, tiers, text, processed>>

NextText ==
  \/ ProcessTextReturns
  \/ ProcessTextRaises

SpecText == InitText /\ [][NextText]_vars

(***************************************************************************)
(* The claims about parse_srt, checked under Spec.                         *)
(***************************************************************************)
Returned == pc = "done"

Ended == pc \in {"done", "raised"}

\* some tier holds a speech interval with these times
Contributes(times) ==
  \E k \in 1..Len(tiers) : \E i \in 1..Len(tiers[k].intervals) :
    /\ tiers[k].intervals[i].text # ""
    /\ tiers[k].intervals[i].start = times.start
    /\ tiers[k].intervals[i].end = times.end

\* some change record carries this timestamp line
Logged(timestamp) ==
  \E c \in 1..Len(changes_list) : changes_list[c][1] = Render(timestamp)

\* C1: every interval, speech or silence, of every tier parse_srt returns
\* satisfies 0 <= start <= end <= media_duration.
\* Violated: a block whose end time precedes its start time is kept as it is.
C1_IntervalsWithinDuration ==
  Returned =>
    \A k \in 1..Len(tiers) : \A i \in 1..Len(tiers[k].intervals) :
      /\ FloatLeq(FZero, tiers[k].intervals[i].start)
      /\ FloatLeq(tiers[k].intervals[i].start, tiers[k].intervals[i].end)
      /\ FloatLeq(tiers[k].intervals[i].end, media_duration)

\* C3: once parse_srt, given a media duration, has ended, a block of three
\* lines or more with a well-formed timestamp (and a matching speaker tag
\* under diarize) has a speech interval with its own start and end in the
\* output if and only if its end is <= media_duration, and a block beyond it
\* has no change record.
\* Violated: the ValueError of line 150 or of lines 241-243 ends parse_srt
\* with no output at all.
C3_KeptIffWithinDuration ==
  (Ended /\ exc # "RuntimeError") =>
    \A j \in 1..Len(blocks) :
      Len(blocks[j]) >= 3 =>
        \A times \in {parse_time_range(blocks[j][2])} :
          (times.ok /\ (diarize => speaker_match(Strip(blocks[j][3])).ok)) =>
            /\ Contributes(times) <=> ~exceeds_duration(times.end, media_duration)
            /\ exceeds_duration(times.end, media_duration) => ~Logged(blocks[j][2])

\* C4: under diarize the step of parse_srt on a block whose third line does
\* not match "[<speaker>]: <rest>" goes on to the next block and adds no
\* interval and no change record; without diarize every speaker of the
\* dictionary is "Speaker", so there is one tier at most.
\* Violated: when the timestamp line of such a block does not parse, the
\* step raises ValueError instead.
C4_UnmatchedSpeakerDropped ==
  [][/\ (InLoop /\ Len(lines) >= 3 /\ diarize /\ ~speaker_match(speaker_text).ok)
          => /\ pc' = "loop"
             /\ idx' = idx + 1
             /\ speaker_intervals' = speaker_intervals
             /\ changes_list' = changes_list
     /\ ~diarize
          => /\ Len(speaker_intervals') <= 1
             /\ \A k \in 1..Len(speaker_intervals') :
                  speaker_intervals'[k].speaker = "Speaker"]_vars

\* the block the loop is at is malformed: fewer than three lines, a
\* timestamp line that does not parse, or no speaker tag under diarize
Malformed ==
  \/ Len(lines) < 3
  \/ ~parse_time_range(time_range).ok
  \/ diarize /\ ~speaker_match(speaker_text).ok

\* C6: the step of parse_srt on a malformed block raises nothing, leaves the
\* intervals and the change records as they are, and goes on to the next
\* block.
\* Violated: lines 241-243 raise ValueError on a timestamp line that does not
\* parse, and parse_srt ends there.
C6_MalformedBlockSkipped ==
  [][(InLoop /\ Malformed)
       => /\ pc' = "loop"
          /\ exc' = "None"
          /\ idx' = idx + 1
          /\ speaker_intervals' = speaker_intervals
          /\ changes_list' = changes_list]_vars

\* add_silent_intervals returns in this step
Returns == pc = "loop" /\ pc' = "done"

\* two subtitles of one speaker that do not overlap, both after 0 and both
\* ending before the duration
TwoSubtitles(L) ==
  /\ Len(L) = 2
  /\ FloatLeq(L[1].end, L[2].start) \/ FloatLeq(L[2].end, L[1].start)
  /\ FloatGreater(L[1].start, FZero) /\ FloatGreater(L[2].start, FZero)
  /\ FloatLess(L[1].end, media_duration) /\ FloatLess(L[2].end, media_duration)

\* the one that starts first (the first of the file on a tie), and the other
Earlier(L) == IF FloatLess(L[2].start, L[1].start) THEN L[2] ELSE L[1]

Later(L) == IF FloatLess(L[2].start, L[1].start) THEN L[1] ELSE L[2]

\* C7 as stated: the timeline returned for a speaker for whom the loop
\* appended two such subtitles has exactly 3 intervals.
C7_ThreeIntervals ==
  [][Returns =>
       \A k \in 1..Len(speaker_intervals) :
         TwoSubtitles(speaker_intervals[k].intervals)
           => Len(tiers'[k].intervals) = 3]_vars

\* C7 amended: the timeline returned for a speaker for whom the loop
\* appended two such subtitles has exactly 4 intervals when the later
\* subtitle starts where the earlier ends, and exactly 5 when it starts
\* after: leading silence (0, t1, ""), the earlier subtitle, the silence of
\* the gap if there is one, the later subtitle, and trailing silence ending
\* at media_duration.
C7_FourOrFiveIntervals ==
  [][Returns =>
       \A k \in 1..Len(speaker_intervals) :
         TwoSubtitles(speaker_intervals[k].intervals) =>
           \E a \in {Earlier(speaker_intervals[k].intervals)},
              b \in {Later(speaker_intervals[k].intervals)},
              T \in {tiers'[k].intervals} :
             /\ Len(T) = IF FloatGreater(b.start, a.end) THEN 5 ELSE 4
             /\ T[1] = Interval(FZero, a.start, "")
             /\ T[2] = a
             /\ FloatGreater(b.start, a.end) => T[3] = Interval(a.end, b.start, "")
             /\ T[Len(T) - 1] = b
             /\ T[Len(T)] = Interval(b.end, media_duration, "")]_vars

\* parse_srt returned the timeline of two subtitles with a gap between them
C7_Witness ==
  /\ Returned
  /\ \E k \in 1..Len(tiers) :
       /\ TwoSubtitles(speaker_intervals[k].intervals)
       /\ FloatGreater(speaker_intervals[k].intervals[2].start,
                       speaker_intervals[k].intervals[1].end)
       /\ Len(tiers[k].intervals) = 5

\* block j is skipped or dropped: too short, beyond the duration, or with
\* no speaker tag under diarize
SkippedOrDropped(j) ==
  \/ Len(blocks[j]) < 3
  \/ \E times \in {parse_time_range(blocks[j][2])} :
       times.ok /\ exceeds_duration(times.end, media_duration)
  \/ diarize /\ ~speaker_match(Strip(blocks[j][3])).ok

\* C10: in every state of parse_srt every speaker of the dictionary has an
\* interval, so add_silent_intervals never raises IndexError; every tier it
\* returns holds a speech interval the loop appended for that speaker; and
\* when every block is skipped or dropped it returns no tier.
C10_NoEmptySpeaker ==
  /\ \A k \in 1..Len(speaker_intervals) : speaker_intervals[k].intervals # <<>>
  /\ exc # "IndexError"
  /\ Returned =>
       /\ Len(tiers) = Len(speaker_intervals)
       /\ \A k \in 1..Len(tiers) :
            \E i \in 1..Len(tiers[k].intervals) :
              \E n \in 1..Len(speaker_intervals[k].intervals) :
                tiers[k].intervals[i] = speaker_intervals[k].intervals[n]
       /\ (\A j \in 1..Len(blocks) : SkippedOrDropped(j)) => tiers = <<>>

\* parse_srt returned a tier although a block of the input was skipped or
\* dropped under diarize
C10_Witness ==
  /\ Returned
  /\ diarize
  /\ tiers # <<>>
  /\ \E j \in 1..Len(blocks) : SkippedOrDropped(j)

(***************************************************************************)
(* The claim about add_silent_intervals, checked under SpecSilence.         *)
(***************************************************************************)
WithinDuration(L) ==
  \A n \in 1..Len(L) :
    /\ FloatLeq(FZero, L[n].start)
    /\ FloatLeq(L[n].start, L[n].end)
    /\ FloatLeq(L[n].end, media_duration)

PairwiseNonOverlapping(L) ==
  \A m \in 1..Len(L) : \A n \in (m + 1)..Len(L) :
    FloatLeq(L[m].end, L[n].start) \/ FloatLeq(L[n].end, L[m].start)

\* every interval ends no later than each interval that follows it in the
\* order of start (equal starts in input order) starts
EndsBeforeFollowers(L) ==
  \A m \in 1..Len(L) : \A n \in 1..Len(L) :
    (FloatLess(L[m].start, L[n].start) \/ (L[m].start = L[n].start /\ m < n))
      => FloatLeq(L[m].end, L[n].start)

\* ordered by start, from 0 to media_duration, each interval starting no
\* later than the one before it ends
OrderedCover(T) ==
  /\ T[1].start = FZero
  /\ T[Len(T)].end = media_duration
  /\ \A i \in 1..(Len(T) - 1) :
       FloatLeq(T[i].start, T[i + 1].start) /\ FloatLeq(T[i + 1].start, T[i].end)

Abutting(T) == \A i \in 1..(Len(T) - 1) : T[i].end = T[i + 1].start

\* C2 as stated: for a list of intervals with 0 <= start <= end <=
\* media_duration the tier add_silent_intervals returns is an ordered cover
\* of [0, media_duration], and when the intervals of the list are pairwise
\* non-overlapping every interval of the tier ends where the next starts.
C2_NonOverlappingAbut ==
  [][Returns =>
       \A k \in 1..Len(speaker_intervals) :
         WithinDuration(speaker_intervals[k].intervals) =>
           /\ OrderedCover(tiers'[k].intervals)
           /\ PairwiseNonOverlapping(speaker_intervals[k].intervals)
                => Abutting(tiers'[k].intervals)]_vars

\* C2 amended: for a list of intervals with 0 <= start <= end <=
\* media_duration the tier add_silent_intervals returns is an ordered cover
\* of [0, media_duration], and when every interval of the list ends no later
\* than each interval that follows it in the order of start (equal starts in
\* input order) starts, every interval of the tier ends where the next
\* starts.
C2_OrderedCover ==
  [][Returns =>
       \A k \in 1..Len(speaker_intervals) :
         WithinDuration(speaker_intervals[k].intervals) =>
           /\ OrderedCover(tiers'[k].intervals)
           /\ EndsBeforeFollowers(speaker_intervals[k].intervals)
                => Abutting(tiers'[k].intervals)]_vars

\* add_silent_intervals put silence before, between and after two
\* intervals, and left the list of its argument sorted
C2_Witness ==
  /\ Returned
  /\ \E k \in 1..Len(tiers) :
       /\ WithinDuration(speaker_intervals[k].intervals)
       /\ EndsBeforeFollowers(speaker_intervals[k].intervals)
       /\ Len(speaker_intervals[k].intervals) = 2
       /\ Len(tiers[k].intervals) = 5

(***************************************************************************)
(* The claims about process_text and replace_numbers, checked under        *)
(* SpecText.                                                               *)
(***************************************************************************)
Called == pc # "call"

HasDigit(t) == \E i \in 1..Len(t) : IsDigit(t[i])

HasUpperRun(t) == \E i \in 1..(Len(t) - 1) : IsUpper(t[i]) /\ IsUpper(t[i + 1])

\* a non-negative integer as it is written: digits, no leading zero
IsNumeral(t) ==
  /\ Len(t) >= 1
  /\ \A i \in 1..Len(t) : IsDigit(t[i])
  /\ Len(t) > 1 => t[1] # "0"

\* C5: after process_text the change list holds the one record [timestamp,
\* original text, processed text] if the original text has a digit or two
\* upper-case letters in a row, and nothing otherwise; with convert_numbers
\* false the text returned is the original text.
\* Violated: on a digit run followed by "s" that is no decade, line 150
\* raises ValueError and no record is appended.
C5_ChangeRecorded ==
  Called =>
    /\ changes_list =
         IF HasDigit(text) \/ HasUpperRun(text)
           THEN <<(<<Render(CallTimestamp), Render(text), processed>>)>>
           ELSE <<>>
    /\ ~convert_numbers => processed = Render(text)

\* C8: with conversion on, "$n" becomes the cardinal words of n followed by
\* " dollars", whatever the number of digits of n.
\* Violated: the currency pass leaves the digits, so the 4-digit pass
\* renders the amount its own way.
C8_CurrencyWords ==
  (Called /\ convert_numbers /\ Len(text) >= 2 /\ text[1] = "$"
     /\ IsNumeral(Tail(text)))
    => /\ pc = "done"
       /\ processed = Render(number_to_words(ToInt(text, 2, Len(text)))
                              \o <<" ", "d", "o", "l", "l", "a", "r", "s">>)

\* C9: with conversion on, a digit run of a length other than four becomes
\* the cardinal words of the whole number.
\* Violated: the 4-digit pass takes the first four digits of a longer run.
C9_FourDigitsOnly ==
  (Called /\ convert_numbers /\ IsNumeral(text) /\ Len(text) # 4)
    => /\ pc = "done"
       /\ processed = Render(number_to_words(ToInt(text, 1, Len(text))))

====
